---- MODULE Spec2Model ----
(***************************************************************************)
(* Model of cyclone_monitoring.py: a Streamlit page script that fetches    *)
(* the live NOAA storm feed and the IBTrACS archive, rolls the archive up  *)
(* to one row per storm, and renders two sections.                         *)
(*                                                                         *)
(* A CSV cell is a sequence of tokens: <<>> is the empty (missing) cell    *)
(* pandas reads as NaN, <<n>> a name or a number, <<y, m, d>> a timestamp. *)
(* A fetcher result is [present, rows]: present = FALSE is Python's None,  *)
(* rows are the DataFrame's rows in order.                                 *)
(***************************************************************************)
EXTENDS Integers, Sequences, FiniteSets, TLC

\* ---------------------------------------------------------------- bounds
MaxStorms == 2        \* entries in a live feed body
MaxFree   == 2        \* hand-picked rows appended to a generated archive
MaxRuns   == 2        \* page runs (reruns of the script) in one behaviour

\* ------------------------------------------------------ program constants
LIVE_TTL   == 1800    \* @st.cache_data(ttl=1800)
HIST_TTL   == 86400   \* @st.cache_data(ttl=86400)
HEAD_LIMIT == 50      \* .head(50)

NaN == <<>>

\* A frame holds its rows materialized: the sequence with every row computed.
AsList(f) == f \o <<>>

None == [present |-> FALSE, rows |-> <<>>]

DataFrame(rows) == [present |-> TRUE, rows |-> rows]

\* ------------------------------------------------- historical roll-up
REQUIRED == <<"NAME", "SEASON", "ISO_TIME", "WMO_WIND", "WMO_PRES", "LAT", "LON">>

RequiredSet == {REQUIRED[i] : i \in 1..Len(REQUIRED)}

\* pd.read_csv(url, skiprows=[1]): line 0 is the header, line 1 (the units
\* row) is skipped, every later line is a data row.
read_csv(body) ==
    [columns |-> body.header,
     rows    |-> IF Len(body.lines) = 0 THEN <<>> ELSE Tail(body.lines)]

\* df[[...]]: the column subset; a KeyError when a column is not in the frame.
HasColumns(df) == RequiredSet \subseteq df.columns

select(df) ==
    LET rows == df.rows
    IN  AsList([i \in 1..Len(rows) |->
            [NAME     |-> rows[i]["NAME"],
             SEASON   |-> rows[i]["SEASON"],
             ISO_TIME |-> rows[i]["ISO_TIME"],
             WMO_WIND |-> rows[i]["WMO_WIND"],
             WMO_PRES |-> rows[i]["WMO_PRES"],
             LAT      |-> rows[i]["LAT"],
             LON      |-> rows[i]["LON"]]])

\* .dropna(): keep the rows with no missing cell.
Complete(row) == \A c \in DOMAIN row : row[c] # NaN

dropna(rows) == SelectSeq(rows, Complete)

\* .rename(columns=...): the same cells under the display names.
rename(rows) ==
    AsList([i \in 1..Len(rows) |->
        [Name      |-> rows[i]["NAME"][1],
         Year      |-> rows[i]["SEASON"][1],
         Date      |-> rows[i]["ISO_TIME"],
         Wind      |-> rows[i]["WMO_WIND"][1],
         Pressure  |-> rows[i]["WMO_PRES"][1],
         Latitude  |-> rows[i]["LAT"][1],
         Longitude |-> rows[i]["LON"][1]]])

IsLeap(y) == (y % 4 = 0 /\ y % 100 # 0) \/ y % 400 = 0

DaysInMonth(y, m) ==
    IF m = 2 THEN (IF IsLeap(y) THEN 29 ELSE 28)
    ELSE IF m \in {4, 6, 9, 11} THEN 30 ELSE 31

RECURSIVE DaysBefore(_, _)
DaysBefore(y, m) == IF m <= 1 THEN 0 ELSE DaysBefore(y, m - 1) + DaysInMonth(y, m - 1)

\* pd.to_datetime on one cell: a calendar date parses, anything else raises.
ValidDate(c) ==
    /\ Len(c) = 3
    /\ c[2] \in 1..12
    /\ c[3] \in 1..DaysInMonth(c[1], c[2])

to_datetime(c) ==
    LET y == c[1] - 1
    IN  365 * y + (y \div 4) - (y \div 100) + (y \div 400) + DaysBefore(c[1], c[2]) + c[3]

ParseDates(rows) ==
    AsList([i \in 1..Len(rows) |-> [rows[i] EXCEPT !.Date = to_datetime(rows[i].Date)]])

Before_Ascending(rows, i, j, tie) ==
    \/ rows[i].Date < rows[j].Date
    \/ /\ rows[i].Date = rows[j].Date
       /\ IF tie = "keep" THEN i < j ELSE i > j

\* sort_values(by="Date", ascending=False).  The default sort is not stable:
\* rows with equal Date may come out in either order; tie says which one
\* ("keep": input order, "swap": reversed input order).
Before(rows, i, j, tie) ==
    \/ rows[i].Date > rows[j].Date
    \/ /\ rows[i].Date = rows[j].Date
       /\ IF tie = "keep" THEN i < j ELSE i > j

sort_values(rows, tie) ==
    LET n    == Len(rows)
        rank == AsList([i \in 1..n |-> 1 + Cardinality({j \in 1..n : Before(rows, j, i, tie)})])
        at   == AsList([p \in 1..n |-> CHOOSE i \in 1..n : rank[i] = p])
    IN  AsList([p \in 1..n |-> rows[at[p]]])

\* .groupby("Name").first().reset_index(): groupby sorts the group keys
\* (sort=True is the default), so the frame comes back one row per Name in
\* ascending Name order; first() takes each group's first row in the order
\* of the frame it was given.
groupby_first(rows) ==
    LET n     == Len(rows)
        first == AsList([i \in 1..n |-> \A j \in 1..(i - 1) : rows[j].Name # rows[i].Name])
        rank  == AsList([i \in 1..n |->
                    IF first[i]
                    THEN 1 + Cardinality({j \in 1..n : first[j] /\ rows[j].Name < rows[i].Name})
                    ELSE 0])
        k     == Cardinality({i \in 1..n : first[i]})
        at    == AsList([p \in 1..k |-> CHOOSE i \in 1..n : rank[i] = p])
    IN  AsList([p \in 1..k |-> rows[at[p]]])

head_OneMore(rows, n) == SubSeq(rows, 1, IF Len(rows) < n + 1 THEN Len(rows) ELSE n + 1)

\* .head(n)
head(rows, n) == SubSeq(rows, 1, IF Len(rows) < n THEN Len(rows) ELSE n)

\* What the HTTP layer hands to the historical fetcher.
\*   kind "transport"  : the connection fails (URLError)
\*   kind "http_error" : a non-success status (HTTPError)
\*   kind "bad_csv"    : the body does not tokenize (ParserError)
\*   kind "csv"        : header is the set of columns, lines the lines after it
HistFails(body) ==
    \/ body.kind # "csv"
    \/ ~HasColumns(read_csv(body))
    \/ LET kept == dropna(select(read_csv(body)))
       IN  \E i \in 1..Len(kept) : ~ValidDate(kept[i]["ISO_TIME"])

\* fetch_last_50_cyclones: [value, error]; error = TRUE when st.error was called.
fetch_last_50_cyclones(body, tie) ==
    IF HistFails(body)
    THEN [value |-> None, error |-> TRUE]
    ELSE LET df_filtered      == ParseDates(rename(dropna(select(read_csv(body)))))
             last_50_cyclones == groupby_first(sort_values(df_filtered, tie))
         IN  [value |-> DataFrame(head(last_50_cyclones, HEAD_LIMIT)), error |-> FALSE]

\* ------------------------------------------------------ live feed fetcher
KEYS == {"name", "wind", "pressure", "lat", "lon"}

\* What the HTTP layer hands to the live fetcher.
\*   kind "transport"       : requests.get raises ConnectionError
\*   kind "http_error"      : raise_for_status raises HTTPError
\*   kind "bad_json"        : response.json() cannot decode the body
\*   kind "json_array"      : the body is valid JSON but not an object
\*   kind "json_no_storms"  : an object without a "storms" key
\*   kind "json"            : an object whose "storms" list is body.storms
storms_of(body) == IF body.kind = "json" THEN body.storms ELSE <<>>

\* The exception raised inside the try block, "none" when there is none.
\* data.get("storms", []) needs a dict and storm["lon"] needs the key.  A
\* body that does not decode raises requests.exceptions.JSONDecodeError from
\* requests 2.27 on and a plain ValueError before; no version is pinned, so
\* modern says which.
LiveException(body, modern) ==
    CASE body.kind = "transport"  -> "ConnectionError"
      [] body.kind = "http_error" -> "HTTPError"
      [] body.kind = "bad_json"   -> IF modern THEN "JSONDecodeError" ELSE "ValueError"
      [] body.kind = "json_array" -> "AttributeError"
      [] OTHER ->
            IF \E i \in 1..Len(storms_of(body)) : ~(KEYS \subseteq DOMAIN storms_of(body)[i])
            THEN "KeyError"
            ELSE "none"

RequestException_NoConnectionError == {"HTTPError", "JSONDecodeError"}

\* except requests.exceptions.RequestException: the classes it covers.
RequestException == {"ConnectionError", "HTTPError", "JSONDecodeError"}

active_storms_LatLonSwapped(body) ==
    AsList([i \in 1..Len(storms_of(body)) |->
        [Name      |-> storms_of(body)[i]["name"],
         Wind      |-> storms_of(body)[i]["wind"],
         Pressure  |-> storms_of(body)[i]["pressure"],
         Latitude  |-> storms_of(body)[i]["lon"],
         Longitude |-> storms_of(body)[i]["lat"]]])

active_storms(body) ==
    AsList([i \in 1..Len(storms_of(body)) |->
        [Name      |-> storms_of(body)[i]["name"],
         Wind      |-> storms_of(body)[i]["wind"],
         Pressure  |-> storms_of(body)[i]["pressure"],
         Latitude  |-> storms_of(body)[i]["lat"],
         Longitude |-> storms_of(body)[i]["lon"]]])

frame_or_none_AlwaysFrame(rows) == DataFrame(rows)

\* pd.DataFrame(active_storms) if active_storms else None
frame_or_none(rows) == IF rows # <<>> THEN DataFrame(rows) ELSE None

\* fetch_real_time_cyclones: [value, error, raised]; error = TRUE when
\* st.error was called, raised = TRUE when an exception leaves the function.
fetch_real_time_cyclones(body, modern) ==
    IF LiveException(body, modern) = "none"
    THEN [value |-> frame_or_none(active_storms(body)), error |-> FALSE, raised |-> FALSE]
    ELSE IF LiveException(body, modern) \in RequestException
    THEN [value |-> None, error |-> TRUE, raised |-> FALSE]
    ELSE [value |-> None, error |-> FALSE, raised |-> TRUE]

\* ------------------------------------------------------------ input sets
SeqsUpTo(S, n) == UNION {[1..m -> S] : m \in 0..n}

StormA == [name |-> 1, wind |-> 50, pressure |-> 990, lat |-> 10, lon |-> 20]

StormB == [name |-> 2, wind |-> 90, pressure |-> 950, lat |-> 30, lon |-> 40]

StormNoLon == [name |-> 3, wind |-> 60, pressure |-> 980, lat |-> 15]

LiveFailure(k) == [kind |-> k, storms |-> <<>>]

LiveJson(s) == [kind |-> "json", storms |-> s]

LiveFailures ==
    {LiveFailure(k) : k \in {"transport", "http_error", "bad_json", "json_array", "json_no_storms"}}

AllLiveBodies ==
    LiveFailures \cup {LiveJson(s) : s \in SeqsUpTo({StormA, StormB, StormNoLon}, MaxStorms)}

FewLiveBodies ==
    LiveFailures \cup {LiveJson(<<>>), LiveJson(<<StormA>>), LiveJson(<<StormNoLon>>)}

ProbeLiveBodies == {LiveJson(<<StormA>>)}

Header == RequiredSet \cup {"BASIN"}

Cell(c, miss, v) == IF c = miss THEN NaN ELSE v

Row(name, date, wind, miss) ==
    [NAME     |-> Cell("NAME", miss, <<name>>),
     SEASON   |-> Cell("SEASON", miss, <<date[1]>>),
     ISO_TIME |-> Cell("ISO_TIME", miss, date),
     WMO_WIND |-> Cell("WMO_WIND", miss, <<wind>>),
     WMO_PRES |-> Cell("WMO_PRES", miss, <<1000>>),
     LAT      |-> Cell("LAT", miss, <<12>>),
     LON      |-> Cell("LON", miss, <<77>>),
     BASIN    |-> Cell("BASIN", miss, <<5>>)]

\* The units line under the header: text in every column, no data.
UnitsRow ==
    [NAME |-> <<0>>, SEASON |-> <<0>>, ISO_TIME |-> <<0>>, WMO_WIND |-> <<0>>,
     WMO_PRES |-> <<0>>, LAT |-> <<0>>, LON |-> <<0>>, BASIN |-> <<0>>]

Old == <<2019, 12, 31>>

New == <<2021, 3, 1>>

Bad == <<2020, 2, 30>>

\* A generated archive of k storms named 1..k, one row each, later names later.
BulkDate(i) == <<2020, 1 + ((i - 1) \div 28), 1 + ((i - 1) % 28)>>

Bulk(k) == AsList([i \in 1..k |-> Row(i, BulkDate(i), 40, "none")])

FreeRows ==
    {Row(n, d, 35, "none") : n \in {1, HEAD_LIMIT + 1}, d \in {Old, New}}
    \cup {Row(1, New, 100, "none"), Row(1, Bad, 35, "none")}
    \cup {Row(1, New, 35, c) : c \in Header}

HistFailure(k) == [kind |-> k, header |-> {}, lines |-> <<>>]

Csv(rows) == [kind |-> "csv", header |-> Header, lines |-> <<UnitsRow>> \o rows]

\* An archive whose header has no LON column.
CsvNoLon ==
    [kind |-> "csv", header |-> Header \ {"LON"}, lines |-> <<[c \in Header \ {"LON"} |-> <<0>>]>>]

HistFailures ==
    {HistFailure(k) : k \in {"transport", "http_error", "bad_csv"}}
    \cup {CsvNoLon}

\* Rows appended to the generated archive of HEAD_LIMIT storms.
TopRows ==
    {Row(n, d, 35, "none") : n \in {1, HEAD_LIMIT + 1}, d \in {Old, New}}
    \cup {Row(HEAD_LIMIT + 1, New, 35, "LAT")}

AllHistBodies ==
    HistFailures
    \cup {Csv(f) : f \in SeqsUpTo(FreeRows, MaxFree)}
    \cup {Csv(Bulk(HEAD_LIMIT) \o f) : f \in SeqsUpTo(TopRows, MaxFree)}

FewHistBodies ==
    HistFailures
    \cup {Csv(<<Row(1, New, 35, "LAT")>>),
          Csv(<<Row(1, Old, 35, "none"), Row(2, New, 35, "none")>>)}

\* ------------------------------------------------------------- page state
VARIABLES
    pc,                 \* where the script run is
    now,                \* wall clock, seconds
    runs,               \* script runs started so far
    liveCache,          \* st.cache_data entry of fetch_real_time_cyclones
    histCache,          \* st.cache_data entry of fetch_last_50_cyclones
    real_time_data,     \* module variable, line 62
    past_cyclone_data,  \* module variable, line 63
    shown,              \* elements on the page in this run
    liveBody,           \* response to the last live request
    histBody,           \* response to the last historical request
    liveReq,            \* this run issued a live request
    histReq,            \* this run issued a historical request
    liveLast,           \* time of the last live request before this run, -1 if none
    histLast            \* time of the last historical request before this run, -1 if none

vars == <<pc, now, runs, liveCache, histCache, real_time_data, past_cyclone_data,
          shown, liveBody, histBody, liveReq, histReq, liveLast, histLast>>

EmptyCache == [valid |-> FALSE, value |-> None, error |-> FALSE, at |-> 0]

Init ==
    /\ pc = "idle"
    /\ now = 0
    /\ runs = 0
    /\ liveCache = EmptyCache
    /\ histCache = EmptyCache
    /\ real_time_data = None
    /\ past_cyclone_data = None
    /\ shown = {}
    /\ liveBody = [kind |-> "none", storms |-> <<>>]
    /\ histBody = [kind |-> "none", header |-> {}, lines |-> <<>>]
    /\ liveReq = FALSE
    /\ histReq = FALSE
    /\ liveLast = -1
    /\ histLast = -1

\* A page load or rerun: the script starts again from line 1 with a fresh
\* namespace and an empty page; only the st.cache_data entries survive.
StartRun(maxRuns) ==
    /\ pc \in {"idle", "done", "crashed"}
    /\ runs < maxRuns
    /\ \E d \in {900, 1800, 86400} : now' = now + d
    /\ runs' = runs + 1
    /\ pc' = "fetch_live"
    /\ shown' = {"title"}
    /\ real_time_data' = None
    /\ past_cyclone_data' = None
    /\ liveReq' = FALSE
    /\ histReq' = FALSE
    /\ liveLast' = IF liveReq THEN now ELSE liveLast
    /\ histLast' = IF histReq THEN now ELSE histLast
    /\ UNCHANGED <<liveCache, histCache, liveBody, histBody>>

\* st.cache_data(ttl=...): an entry is served while it is younger than ttl.
Fresh(entry, ttl) == entry.valid /\ now - entry.at < ttl

ErrorElement(name, error) == IF error THEN {name} ELSE {}

\* Line 62: real_time_data = fetch_real_time_cyclones()
FetchLive(bodies) ==
    /\ pc = "fetch_live"
    /\ IF Fresh(liveCache, LIVE_TTL)
       THEN /\ real_time_data' = liveCache.value
            /\ shown' = shown \cup ErrorElement("live_error", liveCache.error)
            /\ pc' = "fetch_hist"
            /\ UNCHANGED <<liveCache, liveBody, liveReq>>
       ELSE \E body \in bodies, modern \in BOOLEAN :
            \E r \in {fetch_real_time_cyclones(body, modern)} :
                /\ liveBody' = body
                /\ liveReq' = TRUE
                /\ IF r.raised
                   THEN /\ pc' = "crashed"
                        /\ shown' = shown \cup {"traceback"}
                        /\ UNCHANGED <<liveCache, real_time_data>>
                   ELSE /\ pc' = "fetch_hist"
                        /\ real_time_data' = r.value
                        /\ shown' = shown \cup ErrorElement("live_error", r.error)
                        /\ liveCache' = [valid |-> TRUE, value |-> r.value,
                                         error |-> r.error, at |-> now]
    /\ UNCHANGED <<now, runs, histCache, past_cyclone_data, histBody, histReq, liveLast, histLast>>

\* Line 63: past_cyclone_data = fetch_last_50_cyclones()
FetchHist(bodies) ==
    /\ pc = "fetch_hist"
    /\ IF Fresh(histCache, HIST_TTL)
       THEN /\ past_cyclone_data' = histCache.value
            /\ shown' = shown \cup ErrorElement("hist_error", histCache.error)
            /\ UNCHANGED <<histCache, histBody, histReq>>
       ELSE \E body \in bodies, tie \in {"keep", "swap"} :
            \E r \in {fetch_last_50_cyclones(body, tie)} :
                /\ histBody' = body
                /\ histReq' = TRUE
                /\ past_cyclone_data' = r.value
                /\ shown' = shown \cup ErrorElement("hist_error", r.error)
                /\ histCache' = [valid |-> TRUE, value |-> r.value,
                                 error |-> r.error, at |-> now]
    /\ pc' = "render_live"
    /\ UNCHANGED <<now, runs, liveCache, real_time_data, liveBody, liveReq, liveLast, histLast>>

\* Lines 66-84
RenderLive ==
    /\ pc = "render_live"
    /\ shown' = shown \cup (IF real_time_data.present
                            THEN {"live_subheader", "live_table", "map"}
                            ELSE {"no_active"})
    /\ pc' = "render_hist"
    /\ UNCHANGED <<now, runs, liveCache, histCache, real_time_data, past_cyclone_data,
                   liveBody, histBody, liveReq, histReq, liveLast, histLast>>

\* Lines 87-101
RenderHist ==
    /\ pc = "render_hist"
    /\ shown' = shown \cup (IF past_cyclone_data.present
                            THEN {"hist_subheader", "hist_table", "line_chart"}
                            ELSE {"hist_warning"})
    /\ pc' = "done"
    /\ UNCHANGED <<now, runs, liveCache, histCache, real_time_data, past_cyclone_data,
                   liveBody, histBody, liveReq, histReq, liveLast, histLast>>

\* The page over several runs, sharing the two caches.
Next ==
    \/ StartRun(MaxRuns)
    \/ FetchLive(FewLiveBodies)
    \/ FetchHist(FewHistBodies)
    \/ RenderLive
    \/ RenderHist

Spec == Init /\ [][Next]_vars

\* One run of the page over every archive in AllHistBodies.
NextHist ==
    \/ StartRun(1)
    \/ FetchLive(ProbeLiveBodies)
    \/ FetchHist(AllHistBodies)
    \/ RenderLive
    \/ RenderHist

SpecHist == Init /\ [][NextHist]_vars

\* One run of the page over every live body in AllLiveBodies.
NextLive ==
    \/ StartRun(1)
    \/ FetchLive(AllLiveBodies)
    \/ FetchHist(FewHistBodies)
    \/ RenderLive
    \/ RenderHist

SpecLive == Init /\ [][NextLive]_vars

\* ------------------------------------------------- properties: the archive
\* The state right after line 63, and what the fetcher was given and returned.
HistReturned == pc = "render_live"

Out == past_cyclone_data.rows

Lines == histBody.lines

\* Line i of the archive is a data row with every required cell filled in.
Survives(i) ==
    /\ i \in 2..Len(Lines)
    /\ \A c \in RequiredSet : Lines[i][c] # NaN

Named(i, name) == Lines[i]["NAME"] = <<name>> /\ Survives(i)

OutNames == {Out[k].Name : k \in 1..Len(Out)}

SurvivorNames == {Lines[i]["NAME"][1] : i \in {j \in 2..Len(Lines) : Survives(j)}}

\* C1: a returned frame has at most 50 rows and no two rows with the same Name.
C1_AtMost50OnePerName ==
    (HistReturned /\ past_cyclone_data.present) =>
        /\ Len(Out) <= 50
        /\ \A i, j \in 1..Len(Out) : i # j => Out[i].Name # Out[j].Name

C1_Witness ==
    /\ HistReturned /\ past_cyclone_data.present
    /\ Len(Out) = 50
    /\ Cardinality(SurvivorNames) > 50
    /\ \E i, j \in 2..Len(Lines) : i # j /\ Survives(i) /\ Named(j, Lines[i]["NAME"][1])

\* C2: every returned row carries the latest Date among the surviving input
\* rows of its Name.
C2_LatestDatePerName ==
    (HistReturned /\ past_cyclone_data.present) =>
        \A k \in 1..Len(Out) :
            /\ \E i \in 2..Len(Lines) :
                  Named(i, Out[k].Name) /\ to_datetime(Lines[i]["ISO_TIME"]) = Out[k].Date
            /\ \A i \in 2..Len(Lines) :
                  Named(i, Out[k].Name) => to_datetime(Lines[i]["ISO_TIME"]) <= Out[k].Date

C2_Witness ==
    /\ HistReturned /\ past_cyclone_data.present
    /\ \E k \in 1..Len(Out) : \E i, j \in 2..Len(Lines) :
          /\ i < j
          /\ Named(i, Out[k].Name) /\ Named(j, Out[k].Name)
          /\ to_datetime(Lines[i]["ISO_TIME"]) < to_datetime(Lines[j]["ISO_TIME"])
          /\ \E m \in 2..Len(Lines) : ~Survives(m)

\* C3: the returned rows are in descending Date order.
C3_DateDescending ==
    (HistReturned /\ past_cyclone_data.present) =>
        \A k \in 1..(Len(Out) - 1) : Out[k].Date >= Out[k + 1].Date

\* C4: with more than 50 storms in the filtered input, every returned storm's
\* latest observation is at least as late as that of every storm left out.
C4_FiftyMostRecent ==
    (HistReturned /\ past_cyclone_data.present /\ Cardinality(SurvivorNames) > 50) =>
        \A k \in 1..Len(Out) : \A i \in 2..Len(Lines) :
            (Survives(i) /\ Lines[i]["NAME"][1] \notin OutNames)
                => Out[k].Date >= to_datetime(Lines[i]["ISO_TIME"])

\* C6: when every row of the archive has a missing required cell the page
\* shows the warning instead of the table and the chart, and no returned row
\* ever comes from an incomplete input row.
AllRowsIncomplete ==
    /\ histBody.kind = "csv"
    /\ RequiredSet \subseteq histBody.header
    /\ Len(Lines) >= 2
    /\ \A i \in 2..Len(Lines) : ~Survives(i)

C6_AllDroppedShowsWarning ==
    /\ (pc = "done" /\ AllRowsIncomplete) =>
          /\ "hist_warning" \in shown
          /\ "hist_table" \notin shown
          /\ "line_chart" \notin shown
    /\ (HistReturned /\ past_cyclone_data.present) =>
          \A k \in 1..Len(Out) : \E i \in 2..Len(Lines) :
              /\ Named(i, Out[k].Name)
              /\ to_datetime(Lines[i]["ISO_TIME"]) = Out[k].Date
              /\ Lines[i]["WMO_WIND"] = <<Out[k].Wind>>

\* ----------------------------------------------- properties: the live feed
Storms == liveBody.storms

WellFormed == liveBody.kind = "json" /\ \A i \in 1..Len(Storms) : KEYS \subseteq DOMAIN Storms[i]

\* The state right after line 62 when this run asked the feed.
LiveReturned == pc = "fetch_hist" /\ liveReq

\* C5: a successful fetch returns one record per entry of the storms list, in
\* the same order, each field equal to the entry's (None counts as no records).
C5_RecordsMirrorEntries ==
    (LiveReturned /\ WellFormed) =>
        /\ Len(real_time_data.rows) = Len(Storms)
        /\ \A i \in 1..Len(Storms) :
              /\ real_time_data.rows[i].Name = Storms[i]["name"]
              /\ real_time_data.rows[i].Wind = Storms[i]["wind"]
              /\ real_time_data.rows[i].Pressure = Storms[i]["pressure"]
              /\ real_time_data.rows[i].Latitude = Storms[i]["lat"]
              /\ real_time_data.rows[i].Longitude = Storms[i]["lon"]

C5_Witness ==
    /\ LiveReturned /\ WellFormed
    /\ Len(Storms) = 2
    /\ Storms[1] # Storms[2]
    /\ real_time_data.present

\* C9: an empty storms list gives the "no active cyclones" message and
\* neither the live table nor the map.
C9_EmptyListShowsNoActive ==
    (pc \in {"render_hist", "done"} /\ liveBody.kind = "json" /\ Storms = <<>>) =>
        /\ "no_active" \in shown
        /\ "live_table" \notin shown
        /\ "map" \notin shown

C9_Witness ==
    /\ pc = "done" /\ liveReq
    /\ liveBody.kind = "json" /\ Storms = <<>>
    /\ "no_active" \in shown

\* --------------------------------------------- properties: failures, cache
LiveError ==
    \/ liveBody.kind \in {"transport", "http_error", "bad_json"}
    \/ liveBody.kind = "json" /\ ~WellFormed

HistError ==
    \/ histBody.kind \in {"transport", "http_error", "bad_csv"}
    \/ histBody.kind = "csv" /\ ~(RequiredSet \subseteq histBody.header)

Finished == pc \in {"done", "crashed"}

LiveSection == {"live_table", "no_active"} \cap shown # {}

HistSection == {"hist_table", "hist_warning"} \cap shown # {}

\* C7: a network or parse error of one pipeline is caught in its fetcher and
\* gives an absent result; no exception leaves the fetcher and the other
\* pipeline is fetched and rendered all the same.
C7_ErrorsStayInsideFetcher ==
    /\ (liveReq /\ LiveError) =>
          /\ pc # "crashed"
          /\ ~real_time_data.present
          /\ pc = "done" => HistSection
    /\ (histReq /\ HistError) =>
          /\ pc # "crashed"
          /\ ~past_cyclone_data.present
          /\ pc = "done" => LiveSection

\* C8: a transport failure on either feed gives a visible error and an absent
\* result, the run does not abort, and a finished run has both sections.
C8_TransportFailureIsShown ==
    /\ (liveReq /\ liveBody.kind = "transport") =>
          /\ pc # "crashed"
          /\ ~real_time_data.present
          /\ "live_error" \in shown
          /\ pc = "done" => (LiveSection /\ HistSection)
    /\ (histReq /\ histBody.kind = "transport") =>
          /\ pc # "crashed"
          /\ ~past_cyclone_data.present
          /\ "hist_error" \in shown
          /\ pc = "done" => (LiveSection /\ HistSection)

C8_Witness ==
    /\ pc = "done"
    /\ liveReq /\ liveBody.kind = "transport"
    /\ histReq /\ histBody.kind = "transport"
    /\ {"live_error", "no_active", "hist_error", "hist_warning"} \subseteq shown

\* C10: each fetcher asks its feed at most once per TTL window: a run that
\* starts less than the TTL after the fetcher's last request sends none, and
\* a run that starts once the TTL has passed sends one.
C10_OneRequestPerWindow ==
    /\ (liveLast >= 0 /\ now - liveLast < LIVE_TTL) => ~liveReq
    /\ (histLast >= 0 /\ now - histLast < HIST_TTL) => ~histReq
    /\ (Finished /\ liveLast >= 0 /\ now - liveLast >= LIVE_TTL) => liveReq
    /\ (Finished /\ histLast >= 0 /\ now - histLast >= HIST_TTL) => histReq
====
